---- MODULE Spec2Model ----
(***************************************************************************)
(* Role-based family conversation orchestrator.                            *)
(*                                                                         *)
(* Spec     : EnhancedSimultaneousChatManager together with its            *)
(*            FamilyConfigurationManager, RoleFactory and                  *)
(*            FamilyMemberAgent objects (enhanced_simultaneous_chat.py,    *)
(*            role_system.py).                                             *)
(* HeraSpec : HeraAgent (agents/hera/agent.py), the object that owns the   *)
(*            start_session / process_message / end_session lifecycle.     *)
(* FactorySpec : _determine_family_structure, create_agent_from_role and   *)
(*            configure_family of role_system.py as functions of their     *)
(*            arguments, the arguments being drawn by the initial state.   *)
(*                                                                         *)
(* Python strings that hold Japanese text are sequences of Unicode code    *)
(* points, so that `in` (substring containment) and `==` are computed on   *)
(* the characters themselves.  Role tags, emotion labels and session ids   *)
(* are ASCII in the source and stay TLA+ strings.  Timestamps and the      *)
(* denormalised agent_info copy of a ChatMessage are not represented.      *)
(***************************************************************************)
EXTENDS Integers, Sequences, FiniteSets, TLC

---------------------------------------------------------------------------
(* Bounds of the exploration *)

\* process_user_message calls explored in one behaviour
MaxRounds == 1
\* add_family_member calls explored in one behaviour
MaxAdds == 1
\* remove_family_member calls explored in one behaviour
MaxRemoves == 1
\* start_family_chat calls explored in one behaviour
MaxStarts == 2
\* HeraAgent.process_message calls explored in one behaviour
MaxHeraRounds == 2
\* length of the histories _get_conversation_context is applied to on its own
MaxLogLen == 7
\* calls of the chat manager's four operations explored in one behaviour
MaxCalls == 3

---------------------------------------------------------------------------
(* Python values *)

\* Python None, where a session id is expected
None == "None"

\* "ユーザー", the speaker of the user's ChatMessage
UserSpeaker == <<12518, 12540, 12470, 12540>>
\* the ASCII string "user"
UserAscii == <<117, 115, 101, 114>>

\* "美咲"
Misaki == <<32654, 21682>>
\* "じいじ"
Jiiji == <<12376, 12356, 12376>>
\* "ばあば"
Baaba == <<12400, 12354, 12400>>
\* "たろう"
Tarou == <<12383, 12429, 12358>>
\* "さくら"
Sakura == <<12373, 12367, 12425>>
\* "ゆうと"
Yuuto == <<12422, 12358, 12392>>
\* "みお"
Mio == <<12415, 12362>>
\* "そうた"
Souta == <<12381, 12358, 12383>>
\* "あい"
Ai == <<12354, 12356>>
\* "ポチ", the pet of usage_example.py
Pochi == <<12509, 12481>>

\* FamilyRole values
FamilyRole == {"partner", "child", "grandfather", "grandmother", "sibling", "pet"}

\* keys of the dict built by RoleFactory._initialize_role_templates
role_templates == {"partner", "child", "grandfather", "grandmother"}

\* RoleTemplate.personality_traits of the four templates
TemplateTraits(role) ==
    \* partner: "愛情深い", "支え合い", "理解力", "協調性"
    IF role = "partner"
    THEN << <<24859, 24773, 28145, 12356>>,
            <<25903, 12360, 21512, 12356>>,
            <<29702, 35299, 21147>>,
            <<21332, 35519, 24615>> >>
    \* child: "好奇心旺盛", "純真", "成長中", "家族思い"
    ELSE IF role = "child"
    THEN << <<22909, 22855, 24515, 26106, 30427>>,
            <<32020, 30495>>,
            <<25104, 38263, 20013>>,
            <<23478, 26063, 24605, 12356>> >>
    \* grandfather: "穏やか", "経験豊富", "家族思い", "知恵深い"
    ELSE IF role = "grandfather"
    THEN << <<31311, 12420, 12363>>,
            <<32076, 39443, 35914, 23500>>,
            <<23478, 26063, 24605, 12356>>,
            <<30693, 24693, 28145, 12356>> >>
    \* grandmother: "優しい", "料理好き", "孫思い", "愛情深い"
    ELSE << <<20778, 12375, 12356>>,
            <<26009, 29702, 22909, 12365>>,
            <<23403, 24605, 12356>>,
            <<24859, 24773, 28145, 12356>> >>

\* RoleTemplate.interests of the four templates
TemplateInterests(role) ==
    \* partner: "家族時間", "趣味", "旅行", "料理"
    IF role = "partner"
    THEN << <<23478, 26063, 26178, 38291>>,
            <<36259, 21619>>,
            <<26053, 34892>>,
            <<26009, 29702>> >>
    \* child: "遊び", "学習", "友達", "家族"
    ELSE IF role = "child"
    THEN << <<36938, 12403>>,
            <<23398, 32722>>,
            <<21451, 36948>>,
            <<23478, 26063>> >>
    \* grandfather: "園芸", "将棋", "散歩", "読書"
    ELSE IF role = "grandfather"
    THEN << <<22290, 33464>>,
            <<23558, 26827>>,
            <<25955, 27497>>,
            <<35501, 26360>> >>
    \* grandmother: "料理", "裁縫", "お花", "孫との時間"
    ELSE << <<26009, 29702>>,
            <<35009, 32299>>,
            <<12362, 33457>>,
            <<23403, 12392, 12398, 26178, 38291>> >>

\* RoleTemplate.values of the four templates
TemplateValues(role) ==
    \* partner: "家族の絆", "健康", "成長", "愛情"
    IF role = "partner"
    THEN << <<23478, 26063, 12398, 32070>>,
            <<20581, 24247>>,
            <<25104, 38263>>,
            <<24859, 24773>> >>
    \* child: "楽しさ", "好奇心", "家族", "友達"
    ELSE IF role = "child"
    THEN << <<27005, 12375, 12373>>,
            <<22909, 22855, 24515>>,
            <<23478, 26063>>,
            <<21451, 36948>> >>
    \* grandfather: "伝統", "家族の絆", "知恵", "健康"
    ELSE IF role = "grandfather"
    THEN << <<20253, 32113>>,
            <<23478, 26063, 12398, 32070>>,
            <<30693, 24693>>,
            <<20581, 24247>> >>
    \* grandmother: "家族の健康", "伝統", "愛情", "絆"
    ELSE << <<23478, 26063, 12398, 20581, 24247>>,
            <<20253, 32113>>,
            <<24859, 24773>>,
            <<32070>> >>
\* the RoleTemplate of a role that has one; the names are "パートナー",
\* "子ども", "祖父", "祖母"
RoleTemplate(role) ==
    [name |-> IF role = "partner"
              THEN <<12497, 12540, 12488, 12490, 12540>>
              ELSE IF role = "child" THEN <<23376, 12393, 12418>>
              ELSE IF role = "grandfather" THEN <<31062, 29238>>
              ELSE <<31062, 27597>>,
     personality_traits |-> TemplateTraits(role),
     interests |-> TemplateInterests(role),
     values |-> TemplateValues(role)]

\* the four keyword lists of _analyze_message_content
\* "悩み", "相談", "アドバイス", "経験"
wisdom_keywords ==
    << <<24745, 12415>>, <<30456, 35527>>,
       <<12450, 12489, 12496, 12452, 12473>>, <<32076, 39443>> >>
\* "体調", "健康", "心配", "面倒"
care_keywords ==
<< <<20307, 35519>>,
       <<20581, 24247>>,
       <<24515, 37197>>,
       <<38754, 20498>> >>
\* "助けて", "困った", "不安", "支え"
support_keywords ==
    << <<21161, 12369, 12390>>, <<22256, 12387, 12383>>,
       <<19981, 23433>>, <<25903, 12360>> >>
\* "楽しい", "嬉しい", "遊び", "笑い"
joy_keywords ==
    << <<27005, 12375, 12356>>, <<23305, 12375, 12356>>,
       <<36938, 12403>>, <<31505, 12356>> >>

---------------------------------------------------------------------------
(* Inputs *)

\* "子どもたちと公園に行きたい"
MsgPark ==
    <<23376, 12393, 12418, 12383, 12385, 12392, 20844, 22290, 12395, 34892,
      12365, 12383, 12356>>
\* "悩みがある"
MsgWisdom == <<24745, 12415, 12364, 12354, 12427>>
\* "相談と健康"
MsgWisdomCare == <<30456, 35527, 12392, 20581, 24247>>
\* "不安で笑い"
MsgSupportJoy == <<19981, 23433, 12391, 31505, 12356>>

\* user messages passed to process_user_message
Messages == {MsgPark, MsgWisdom, MsgWisdomCare, MsgSupportJoy}

\* the session id of usage_example.py
SessionIds == {"demo_session_001"}

\* "30歳です"
MsgAge == <<51, 48, 27507, 12391, 12377>>
\* user messages passed to HeraAgent.process_message
HeraMessages == {MsgAge, MsgPark}

\* A Python dict is a record that carries the set of keys it contains
\* (`keys`) and the set of keys whose value is None (`nulls`); a field whose
\* key is not in `keys` holds a filler that is never read.
NoName == <<>>
\* partner_info / child_info / custom_params dicts
Dict(ks, nm, ag, gd) ==
    [keys |-> ks, name |-> nm, age |-> ag, gender |-> gd,
     personality_traits |-> <<>>, interests |-> <<>>, values |-> <<>>]
\* custom_params dicts that carry lists as well
Overrides(ks, nm, ag, traits, interests, values) ==
    [keys |-> ks, name |-> nm, age |-> ag, gender |-> "unknown",
     personality_traits |-> traits, interests |-> interests, values |-> values]
\* the empty dict, and also the custom_params of a role_config without one
EmptyDict == Dict({}, NoName, 0, "unknown")

\* user_profile dicts
Profile(ks, ns, ag, gd, pi, ci) ==
    [keys |-> ks, nulls |-> ns, age |-> ag, gender |-> gd,
     partner_info |-> pi, children_info |-> ci]

\* Scenario A: age 28, partner 美咲 (26), one child (5, male)
ProfileA ==
    Profile({"age", "partner_info", "children_info"}, {}, 28, "unknown",
            Dict({"name", "age"}, Misaki, 26, "unknown"),
            << Dict({"age", "gender"}, NoName, 5, "male") >>)
\* a 25 year old man with a partner whose name and age are not given, and
\* a child
ProfileB ==
    Profile({"age", "gender", "partner_info", "children_info"}, {}, 25, "male",
            Dict({"gender"}, NoName, 0, "female"),
            << Dict({"age", "gender"}, NoName, 2, "female") >>)
\* asdict(UserProfile()): every key present, every value None
ProfileFresh ==
    Profile({"age", "partner_info", "children_info"},
            {"age", "partner_info", "children_info"}, 0, "unknown",
            EmptyDict, <<>>)

Profiles == {ProfileA, ProfileB, ProfileFresh}

\* the empty dict add_family_member passes as user_profile
EmptyProfile == Profile({}, {}, 0, "unknown", EmptyDict, <<>>)

\* custom_params passed to add_family_member: none, and the pet of
\* usage_example.py
CustomParams == {EmptyDict, Dict({"name", "age"}, Pochi, 3, "unknown")}

\* custom_partner_params of usage_example.py: name "さくら", age 30,
\* personality_traits "アーティスティック", "創造的", "家族思い", interests "絵画", "音楽",
\* "家族時間", values "創造性", "家族の絆", "美しさ"
custom_partner_params ==
    Overrides({"name", "age", "personality_traits", "interests", "values"},
              Sakura, 30,
<< <<12450, 12540, 12486, 12451, 12473, 12486, 12451, 12483, 12463>>,
                 <<21109, 36896, 30340>>,
                 <<23478, 26063, 24605, 12356>> >>,
<< <<32117, 30011>>,
                 <<38899, 27005>>,
                 <<23478, 26063, 26178, 38291>> >>,
<< <<21109, 36896, 24615>>,
                 <<23478, 26063, 12398, 32070>>,
                 <<32654, 12375, 12373>> >>)

\* the dict keys a profile holds: {key} if present
KeyIf(present, key) == IF present THEN {key} ELSE {}

\* the "age" of the profiles handed to the factory: no key, None (written
\* -1), the threshold 25 of _determine_family_structure, 26, and the 28 of
\* usage_example.py
AgeChoices ==
    {[key |-> FALSE, null |-> FALSE, value |-> 0],
     [key |-> TRUE, null |-> TRUE, value |-> -1],
     [key |-> TRUE, null |-> FALSE, value |-> 25],
     [key |-> TRUE, null |-> FALSE, value |-> 26],
     [key |-> TRUE, null |-> FALSE, value |-> 28]}

\* their "partner_info": no key, None, an empty dict, the partner of
\* usage_example.py
PartnerChoices ==
    {[key |-> FALSE, null |-> FALSE, value |-> EmptyDict],
     [key |-> TRUE, null |-> TRUE, value |-> EmptyDict],
     [key |-> TRUE, null |-> FALSE, value |-> EmptyDict],
     [key |-> TRUE, null |-> FALSE,
      value |-> Dict({"name", "age"}, Misaki, 26, "unknown")]}

\* their "children_info": no key, None, no child, the first child of
\* usage_example.py (5, male), both children (the second is 3, female)
ChildrenChoices ==
    {[key |-> FALSE, null |-> FALSE, value |-> <<>>],
     [key |-> TRUE, null |-> TRUE, value |-> <<>>],
     [key |-> TRUE, null |-> FALSE, value |-> <<>>],
     [key |-> TRUE, null |-> FALSE,
      value |-> << Dict({"age", "gender"}, NoName, 5, "male") >>],
     [key |-> TRUE, null |-> FALSE,
      value |-> << Dict({"age", "gender"}, NoName, 5, "male"),
                   Dict({"age", "gender"}, NoName, 3, "female") >>]}

\* user_profile dicts handed to the factory and to configure_family
FactoryProfiles ==
    {Profile(KeyIf(a.key, "age") \cup KeyIf(g # "absent", "gender")
                \cup KeyIf(p.key, "partner_info")
                \cup KeyIf(c.key, "children_info"),
             KeyIf(a.null, "age") \cup KeyIf(p.null, "partner_info")
                \cup KeyIf(c.null, "children_info"),
             a.value, IF g = "absent" THEN "unknown" ELSE g,
             p.value, c.value) :
        a \in AgeChoices, g \in {"absent", "male"},
        p \in PartnerChoices, c \in ChildrenChoices}

\* custom_params handed to create_agent_from_role: none, the pet's and the
\* partner's of usage_example.py
FactoryCustomParams ==
    {EmptyDict, Dict({"name", "age"}, Pochi, 3, "unknown"),
     custom_partner_params}

\* agent names passed to remove_family_member
RemoveNames == {Ai, Sakura}

\* replies of the generation service to the emotion prompt, after strip():
\* one of the labels the prompt lists, and a word it does not list
EmotionReplies == {"happy", "joyful"}

\* the text the generation service returns to call number i of round r
\* (round 0 is the greeting loop of start_family_chat); every call
\* returns a text of its own
GeneratedText(r, i) == <<0, r, i>>

---------------------------------------------------------------------------
(* State *)

VARIABLES
    \* EnhancedSimultaneousChatManager
    current_session,        \* None or a session id
    active_agents,          \* self.active_agents: list of agent objects
    conversation_history,   \* list of ChatMessage
    happy_moments,          \* list of HappyMoment
    \* FamilyConfigurationManager
    cfg_session_id,         \* self.session_id
    cfg_active_agents,      \* self.active_agents
    same_list,              \* the two active_agents attributes reference
                            \* one and the same list object
    \* FamilyMemberAgent objects, by object identity
    agents,
    \* file system: the /tmp/user_sessions/<id> directories that exist
    session_dirs,
    \* process_user_message in progress
    pc,                     \* "idle" or "generate"
    user_message,
    sorted_agents,          \* result of _sort_agents_by_priority
    loop_index,             \* position of the loop over sorted_agents
    responses,              \* the local list `responses`
    contexts,               \* the context argument of each generate_response
                            \* call of the round, in call order
    emotion_reply,          \* what the generation service answers to the
                            \* emotion prompts of the round
    \* what the last call of the caller returned or raised
    outcome,
    \* exploration counters
    rounds, adds, removes, starts,
    \* HeraAgent
    hera_session, hera_history, hera_profile, hera_ended, hera_outcome,
    hera_rounds,
    \* RoleFactory and FamilyConfigurationManager called on their own
    factory_input,          \* the arguments and the service's reply
    factory_result          \* what the last call returned or raised

chat_vars ==
    <<current_session, active_agents, conversation_history, happy_moments,
      cfg_session_id, cfg_active_agents, same_list, agents, session_dirs,
      pc, user_message, sorted_agents, loop_index, responses, contexts,
      emotion_reply, outcome,
      rounds, adds, removes, starts>>

hera_vars ==
    <<hera_session, hera_history, hera_profile, hera_ended, hera_outcome,
      hera_rounds>>

factory_vars == <<factory_input, factory_result>>

vars == <<chat_vars, hera_vars, factory_vars>>

---------------------------------------------------------------------------
(* Helpers on Python lists and dicts *)

Range(s) == {s[i] : i \in 1..Len(s)}

IsPrefix(s, t) == Len(s) <= Len(t) /\ SubSeq(t, 1, Len(s)) = s

\* s[-n:]; LastN_oldest is s[:n]
LastN_oldest(s, n) == IF Len(s) <= n THEN s ELSE SubSeq(s, 1, n)
LastN(s, n) == IF Len(s) <= n THEN s ELSE SubSeq(s, Len(s) - n + 1, Len(s))

\* del s[i]
DeleteAt(s, i) == SubSeq(s, 1, i - 1) \o SubSeq(s, i + 1, Len(s))

\* keyword in user_message (substring containment)
Contains(text, keyword) ==
    \E i \in 1..(Len(text) - Len(keyword) + 1) :
        SubSeq(text, i, i + Len(keyword) - 1) = keyword

\* the first n object identities that no live object has
RECURSIVE FreshIds(_, _)
FreshIds(used, n) ==
    IF n = 0 THEN <<>>
    ELSE LET id == CHOOSE i \in 1..(Cardinality(used) + 1) : i \notin used
         IN  <<id>> \o FreshIds(used \cup {id}, n - 1)

---------------------------------------------------------------------------
(* role_system.py: FamilyMemberAgent construction *)

\* FamilyMemberAgent._generate_child_name
_generate_child_name(user_profile) ==
    LET age == IF "age" \in user_profile.keys THEN user_profile.age ELSE 5
        gender == IF "gender" \in user_profile.keys
                  THEN user_profile.gender ELSE "unknown"
    IN  IF age < 7 THEN (IF gender = "male" THEN Tarou ELSE Sakura)
        ELSE IF age < 13 THEN (IF gender = "male" THEN Yuuto ELSE Mio)
        ELSE (IF gender = "male" THEN Souta ELSE Ai)

\* FamilyMemberAgent._generate_name, for the roles that have a template
_generate_name(role, user_profile) ==
    IF role = "partner"
    THEN (IF "partner_info" \in user_profile.keys
             /\ "name" \in user_profile.partner_info.keys
          THEN user_profile.partner_info.name ELSE Misaki)
    ELSE IF role = "child" THEN _generate_child_name(user_profile)
    ELSE IF role = "grandfather" THEN Jiiji
    ELSE Baaba

\* FamilyMemberAgent._generate_age, for the roles that have a template
_generate_age(role, user_profile) ==
    IF role = "partner"
    THEN (IF "partner_info" \in user_profile.keys
             /\ "age" \in user_profile.partner_info.keys
          THEN user_profile.partner_info.age
          ELSE IF "age" \in user_profile.keys THEN user_profile.age ELSE 28)
    ELSE IF role = "child"
    THEN (IF "age" \in user_profile.keys THEN user_profile.age ELSE 5)
    ELSE IF role = "grandfather" THEN 65
    ELSE 62

\* the exception FamilyMemberAgent.__init__ raises on this profile before it
\* calls the generation service, or "none"
InitError(role, user_profile) ==
    IF role = "partner" /\ "partner_info" \in user_profile.nulls
    THEN "AttributeError"
    ELSE IF role = "child" /\ "age" \in user_profile.nulls
    THEN "TypeError"
    ELSE "none"

\* RoleFactory._apply_custom_params: custom_params.get(key, template.key)
\* for the name and the three lists of the template
_apply_custom_params(template, custom_params) ==
    [name |-> IF "name" \in custom_params.keys
              THEN custom_params.name ELSE template.name,
     personality_traits |->
        IF "personality_traits" \in custom_params.keys
        THEN custom_params.personality_traits ELSE template.personality_traits,
     interests |-> IF "interests" \in custom_params.keys
                   THEN custom_params.interests ELSE template.interests,
     values |-> IF "values" \in custom_params.keys
                THEN custom_params.values ELSE template.values]

\* FamilyMemberAgent.__init__: the object as constructed, with the fields
\* the chat manager reads and writes (get_agent_info has the others)
FamilyMemberAgent(role, template, user_profile) ==
    [role |-> role,
     name |-> _generate_name(role, user_profile),
     age |-> _generate_age(role, user_profile),
     current_emotion |-> "neutral",
     conversation_history |-> <<>>]

\* RoleFactory.create_agent_from_role: the exception it raises without
\* calling the generation service, or "none"; CreateError_any_role finds a
\* template for every role
CreateError_any_role(role, user_profile) == InitError(role, user_profile)
CreateError(role, user_profile) ==
    IF role \notin role_templates THEN "KeyError"
    ELSE InitError(role, user_profile)

\* RoleFactory.create_agent_from_role: the agent it returns when nothing is
\* raised
create_agent_from_role(role, user_profile, custom_params) ==
    LET template == RoleTemplate(role)
    IN  FamilyMemberAgent(role,
                          IF custom_params.keys # {}
                          THEN _apply_custom_params(template, custom_params)
                          ELSE template,
                          user_profile)

\* FamilyConfigurationManager._determine_family_structure: the exception it
\* raises, or "none"
DetermineError(user_profile) ==
    IF "children_info" \in user_profile.nulls THEN "TypeError"
    ELSE IF "age" \in user_profile.nulls THEN "TypeError"
    ELSE "none"

\* FamilyConfigurationManager._determine_family_structure: the role_config
\* list it returns when it raises nothing;
\* _determine_family_structure_from_25 has grandparents from the age of 25
_determine_family_structure_from_25(user_profile) ==
    LET has_partner == "partner_info" \in user_profile.keys
                       /\ "partner_info" \notin user_profile.nulls
                       /\ user_profile.partner_info.keys # {}
        children_info == IF "children_info" \in user_profile.keys
                         THEN user_profile.children_info ELSE <<>>
        user_age == IF "age" \in user_profile.keys THEN user_profile.age ELSE 30
    IN  (IF has_partner
         THEN << [role |-> "partner", custom_params |-> user_profile.partner_info] >>
         ELSE <<>>)
        \o [i \in 1..Len(children_info) |->
              [role |-> "child", custom_params |-> children_info[i]]]
        \o (IF user_age >= 25
            THEN << [role |-> "grandfather", custom_params |-> EmptyDict],
                    [role |-> "grandmother", custom_params |-> EmptyDict] >>
            ELSE <<>>)
_determine_family_structure(user_profile) ==
    LET has_partner == "partner_info" \in user_profile.keys
                       /\ "partner_info" \notin user_profile.nulls
                       /\ user_profile.partner_info.keys # {}
        children_info == IF "children_info" \in user_profile.keys
                         THEN user_profile.children_info ELSE <<>>
        user_age == IF "age" \in user_profile.keys THEN user_profile.age ELSE 30
    IN  (IF has_partner
         THEN << [role |-> "partner", custom_params |-> user_profile.partner_info] >>
         ELSE <<>>)
        \o [i \in 1..Len(children_info) |->
              [role |-> "child", custom_params |-> children_info[i]]]
        \o (IF user_age > 25
            THEN << [role |-> "grandfather", custom_params |-> EmptyDict],
                    [role |-> "grandmother", custom_params |-> EmptyDict] >>
            ELSE <<>>)

\* replies of the generation service to the personality prompt: the call
\* fails, the text is not JSON, the text is a JSON object
PersonalityReplies == {"fail", "not_json", "json_object"}

\* the object a JSON reply to the personality prompt parses to: traits
\* "明るい", character "元気"
ServicePersonality ==
    [traits |-> << <<26126, 12427, 12356>> >>, character |-> <<20803, 27671>>]

\* FamilyMemberAgent._generate_personality when the call is answered; the
\* character of the fallback is "温かみのある"
_generate_personality(template, reply) ==
    IF reply = "json_object" THEN ServicePersonality
    ELSE [traits |-> template.personality_traits,
          character |-> <<28201, 12363, 12415, 12398, 12354, 12427>>]

\* FamilyMemberAgent._generate_interests
_generate_interests(template) == template.interests

\* FamilyMemberAgent._generate_values
_generate_values(template) == template.values

\* FamilyMemberAgent.get_agent_info of the agent create_agent_from_role
\* returns for these arguments and this reply to the personality prompt
get_agent_info(role, user_profile, custom_params, reply) ==
    LET template == IF custom_params.keys # {}
                    THEN _apply_custom_params(RoleTemplate(role), custom_params)
                    ELSE RoleTemplate(role)
    IN  [name |-> _generate_name(role, user_profile),
         role |-> role,
         age |-> _generate_age(role, user_profile),
         personality |-> _generate_personality(template, reply),
         interests |-> _generate_interests(template),
         values |-> _generate_values(template)]

---------------------------------------------------------------------------
(* enhanced_simultaneous_chat.py: scheduling *)

\* one of the four keyword loops of _analyze_message_content
AnyKeyword(keywords, text) ==
    \E k \in 1..Len(keywords) : Contains(text, keywords[k])

\* EnhancedSimultaneousChatManager._analyze_message_content;
\* _analyze_message_content_first_flag sets no flag behind the first one set
_analyze_message_content_first_flag(text) ==
    LET wisdom == AnyKeyword(wisdom_keywords, text)
        care == AnyKeyword(care_keywords, text)
        support == AnyKeyword(support_keywords, text)
    IN  [needs_wisdom |-> wisdom,
         needs_care |-> care /\ ~wisdom,
         needs_support |-> support /\ ~wisdom /\ ~care,
         needs_joy |-> AnyKeyword(joy_keywords, text)
                       /\ ~wisdom /\ ~care /\ ~support]
_analyze_message_content(text) ==
    [needs_wisdom |-> AnyKeyword(wisdom_keywords, text),
     needs_care |-> AnyKeyword(care_keywords, text),
     needs_support |-> AnyKeyword(support_keywords, text),
     needs_joy |-> AnyKeyword(joy_keywords, text)]

\* priority_key of _sort_agents_by_priority, on the role of the agent;
\* priority_key_care_first is the key with the first two branches swapped
priority_key_care_first(role, message_analysis) ==
    IF message_analysis.needs_care /\ role = "grandmother" THEN 0
    ELSE IF message_analysis.needs_wisdom /\ role = "grandfather" THEN 1
    ELSE IF message_analysis.needs_support /\ role = "partner" THEN 2
    ELSE IF message_analysis.needs_joy /\ role = "child" THEN 3
    ELSE 4
priority_key(role, message_analysis) ==
    IF message_analysis.needs_wisdom /\ role = "grandfather" THEN 0
    ELSE IF message_analysis.needs_care /\ role = "grandmother" THEN 1
    ELSE IF message_analysis.needs_support /\ role = "partner" THEN 2
    ELSE IF message_analysis.needs_joy /\ role = "child" THEN 3
    ELSE 4

\* sorted(list, key): insertion of x behind every element whose key is not
\* greater, which is what makes the sort stable; InsertByKey_unstable puts
\* x before the elements of equal key
RECURSIVE InsertByKey_unstable(_, _, _)
InsertByKey_unstable(x, s, key) ==
    IF s = <<>> THEN <<x>>
    ELSE IF key[x] <= key[Head(s)] THEN <<x>> \o s
    ELSE <<Head(s)>> \o InsertByKey_unstable(x, Tail(s), key)
RECURSIVE InsertByKey(_, _, _)
InsertByKey(x, s, key) ==
    IF s = <<>> THEN <<x>>
    ELSE IF key[x] < key[Head(s)] THEN <<x>> \o s
    ELSE <<Head(s)>> \o InsertByKey(x, Tail(s), key)

\* sorted(list, key), the elements being inserted in list order;
\* sorted_from_the_end inserts them from the last to the first
RECURSIVE sorted_from_the_end(_, _)
sorted_from_the_end(s, key) ==
    IF s = <<>> THEN <<>>
    ELSE InsertByKey(Head(s), sorted_from_the_end(Tail(s), key), key)
RECURSIVE sorted(_, _)
sorted(s, key) ==
    IF s = <<>> THEN <<>>
    ELSE InsertByKey(s[Len(s)], sorted(SubSeq(s, 1, Len(s) - 1), key), key)

\* EnhancedSimultaneousChatManager._sort_agents_by_priority
_sort_agents_by_priority(text) ==
    LET message_analysis == _analyze_message_content(text)
        key == [a \in Range(active_agents) |->
                  priority_key(agents[a].role, message_analysis)]
    IN  sorted(active_agents, key)

\* EnhancedSimultaneousChatManager._should_agent_respond, which lets every
\* agent respond; _should_agent_respond_filters lets the grandparents only
_should_agent_respond_filters(agent, text) ==
    agents[agent].role \in {"grandfather", "grandmother"}
_should_agent_respond(agent, text) == TRUE

\* one line of the string _get_conversation_context builds
ContextLine(msg) ==
    [speaker |-> msg.speaker, role |-> msg.role, message |-> msg.message]

\* EnhancedSimultaneousChatManager._get_conversation_context: the last five
\* turns of the history; _get_conversation_context_sees_round reads the
\* responses of the running round as well
_get_conversation_context_sees_round ==
    LET last == LastN(conversation_history \o responses, 5)
    IN  [i \in 1..Len(last) |-> ContextLine(last[i])]
_get_conversation_context ==
    LET last == LastN(conversation_history, 5)
    IN  [i \in 1..Len(last) |-> ContextLine(last[i])]

\* ChatMessage(speaker, message, emotion, role)
ChatMessage(speaker, message, emotion, role) ==
    [speaker |-> speaker, message |-> message, emotion |-> emotion,
     role |-> role]

\* user_msg of process_user_message; user_msg_wrong_emotion carries another
\* emotion label
user_msg_wrong_emotion(text) == ChatMessage(UserSpeaker, text, "happy", "user")
user_msg(text) == ChatMessage(UserSpeaker, text, "neutral", "user")

\* the histories _get_conversation_context is applied to on its own: up to
\* MaxLogLen turns, each the turn of the user or of the partner "美咲", the
\* text of a turn telling its position
Logs ==
    {[k \in DOMAIN kinds |->
         IF kinds[k] = "user"
         THEN user_msg(IF k % 2 = 0 THEN MsgPark ELSE MsgWisdom)
         ELSE ChatMessage(Misaki, GeneratedText(k, 1), "happy", "partner")] :
        kinds \in UNION {[1..n -> {"user", "agent"}] : n \in 0..MaxLogLen}}

\* list.extend(items); extend_overwrites drops the old entries
extend_overwrites(list, items) == items
extend(list, items) == list \o items

---------------------------------------------------------------------------
(* Outcome of a call, as its caller sees it *)

Returned(op, value) == [op |-> op, raised |-> "none", value |-> value]
Raised(op, exception) == [op |-> op, raised |-> exception, value |-> "none"]
Pending(op) == [op |-> op, raised |-> "none", value |-> "pending"]

\* the agent objects that a list still references
Live(ids) == [a \in ids |-> agents[a]]

---------------------------------------------------------------------------
(* role_system.py: FamilyConfigurationManager *)

\* index of the first role_config of configure_family whose agent cannot be
\* created (svc_fail: the agent whose personality call the generation
\* service fails, 0 for none), or 0
ConfigureStop(family_structure, user_profile, svc_fail) ==
    LET bad == {i \in 1..Len(family_structure) :
                   \/ CreateError(family_structure[i].role, user_profile) # "none"
                   \/ i = svc_fail}
    IN  IF bad = {} THEN 0 ELSE CHOOSE i \in bad : \A j \in bad : i <= j

\* configure_family: self.active_agents once the list is rebound to an
\* empty list and the created agents (ids) are appended, old being the list
\* before the call; configure_family_keeps_old appends to the old list
configure_family_keeps_old(old, ids) ==
    SelectSeq(old, LAMBDA a : a \in Range(ids)) \o ids
configure_family(old, ids) == ids

\* FamilyConfigurationManager.remove_agent: index of the first agent with
\* that name, or 0
FirstNamed(list, agent_name) ==
    LET hits == {i \in 1..Len(list) : agents[list[i]].name = agent_name}
    IN  IF hits = {} THEN 0 ELSE CHOOSE i \in hits : \A j \in hits : i <= j

---------------------------------------------------------------------------
(* enhanced_simultaneous_chat.py: EnhancedSimultaneousChatManager *)

\* the locals of a finished process_user_message call are gone
ResetLocals ==
    /\ user_message' = <<>>
    /\ sorted_agents' = <<>>
    /\ loop_index' = 1
    /\ responses' = <<>>
    /\ contexts' = <<>>
    /\ emotion_reply' = "happy"

\* _generate_family_greetings over a roster: self.conversation_history
\* after it has extended the history (history) by the greetings;
\* _generate_family_greetings_keeps_old extends the history of before the
\* start instead
_generate_family_greetings_keeps_old(history, roster, objects) ==
    extend(conversation_history,
           [i \in 1..Len(roster) |->
               ChatMessage(objects[roster[i]].name, GeneratedText(0, i), "happy",
                           objects[roster[i]].role)])
_generate_family_greetings(history, roster, objects) ==
    extend(history,
           [i \in 1..Len(roster) |->
               ChatMessage(objects[roster[i]].name, GeneratedText(0, i), "happy",
                           objects[roster[i]].role)])

\* start_family_chat(session_id, user_profile); svc_fail and greet_fail
\* name the call that the generation service fails (0: none)
start_family_chat(session_id, user_profile, svc_fail, greet_fail) ==
    /\ pc = "idle"
    /\ starts < MaxStarts
    /\ rounds + adds + removes + starts < MaxCalls
    /\ starts' = starts + 1
    /\ current_session' = session_id
    /\ cfg_session_id' = session_id
    /\ ResetLocals
    /\ UNCHANGED <<adds, removes>>
    /\ pc' = "idle"
    /\ IF DetermineError(user_profile) # "none"
       THEN /\ svc_fail = 0 /\ greet_fail = 0
            /\ cfg_active_agents' = <<>>
            /\ same_list' = FALSE
            /\ agents' = Live(Range(active_agents))
            /\ outcome' = Raised("start_family_chat", DetermineError(user_profile))
            /\ UNCHANGED <<active_agents, conversation_history, happy_moments,
                           session_dirs, rounds>>
       ELSE LET family_structure == _determine_family_structure(user_profile)
                n == Len(family_structure)
                stop == ConfigureStop(family_structure, user_profile, svc_fail)
                made == IF stop = 0 THEN n ELSE stop - 1
                ids == IF stop = 0 THEN [i \in 1..n |-> i]
                       ELSE FreshIds(Range(active_agents), made)
                new == [i \in 1..made |->
                          create_agent_from_role(family_structure[i].role,
                                                 user_profile,
                                                 family_structure[i].custom_params)]
                roster == configure_family(cfg_active_agents,
                                           [i \in 1..made |-> ids[i]])
            IN  /\ svc_fail \in 0..n
                /\ greet_fail \in 0..n
                /\ IF stop # 0
                   THEN \* configure_family raised: the chat manager keeps
                        \* its list, the configuration manager holds a new one
                        /\ greet_fail = 0
                        /\ cfg_active_agents' = roster
                        /\ same_list' = FALSE
                        /\ agents' = [a \in Range(active_agents) \cup Range(roster) |->
                                        IF a \in Range(active_agents) THEN agents[a]
                                        ELSE new[CHOOSE i \in 1..made : ids[i] = a]]
                        /\ outcome' = Raised("start_family_chat",
                                IF CreateError(family_structure[stop].role,
                                               user_profile) # "none"
                                THEN CreateError(family_structure[stop].role,
                                                 user_profile)
                                ELSE "OpenAIError")
                        /\ UNCHANGED <<active_agents, conversation_history,
                                       happy_moments, session_dirs, rounds>>
                   ELSE /\ cfg_active_agents' = roster
                        /\ active_agents' = roster
                        /\ same_list' = TRUE
                        /\ agents' = [a \in Range(roster) |-> new[a]]
                        /\ session_dirs' = session_dirs \cup {session_id}
                        /\ happy_moments' = <<>>
                        /\ UNCHANGED rounds
                        /\ IF greet_fail # 0
                           THEN /\ conversation_history' = <<>>
                                /\ outcome' = Raised("start_family_chat", "OpenAIError")
                           ELSE /\ conversation_history' =
                                      _generate_family_greetings(<<>>, roster, agents')
                                /\ outcome' = Returned("start_family_chat", "agents")

\* add_family_member(role, custom_params); svc_ok: the generation service
\* answers the personality call
add_family_member(role, custom_params, svc_ok) ==
    /\ pc = "idle"
    /\ adds < MaxAdds
    /\ rounds + adds + removes + starts < MaxCalls
    /\ adds' = adds + 1
    /\ ResetLocals
    /\ UNCHANGED <<current_session, cfg_session_id, conversation_history,
                   happy_moments, session_dirs, pc, rounds, removes, starts>>
    /\ IF CreateError(role, EmptyProfile) # "none"
       THEN /\ svc_ok
            /\ outcome' = Raised("add_family_member", CreateError(role, EmptyProfile))
            /\ UNCHANGED <<active_agents, cfg_active_agents, same_list, agents>>
       ELSE IF ~svc_ok
       THEN /\ outcome' = Raised("add_family_member", "OpenAIError")
            /\ UNCHANGED <<active_agents, cfg_active_agents, same_list, agents>>
       ELSE LET used == Range(active_agents) \cup Range(cfg_active_agents)
                id == FreshIds(used, 1)[1]
                agent == create_agent_from_role(role, EmptyProfile, custom_params)
            IN  /\ agents' = [a \in used \cup {id} |->
                                IF a = id THEN agent ELSE agents[a]]
                /\ IF same_list
                   THEN \* both appends reach the one list
                        /\ cfg_active_agents' = cfg_active_agents \o <<id, id>>
                        /\ active_agents' = cfg_active_agents'
                   ELSE /\ cfg_active_agents' = Append(cfg_active_agents, id)
                        /\ active_agents' = Append(active_agents, id)
                /\ UNCHANGED same_list
                /\ outcome' = Returned("add_family_member", "agent")

\* remove_family_member(agent_name)
remove_family_member(agent_name) ==
    /\ pc = "idle"
    /\ removes < MaxRemoves
    /\ rounds + adds + removes + starts < MaxCalls
    /\ removes' = removes + 1
    /\ ResetLocals
    /\ UNCHANGED <<current_session, cfg_session_id, conversation_history,
                   happy_moments, session_dirs, pc, rounds, adds, starts>>
    /\ LET i == FirstNamed(cfg_active_agents, agent_name)
       IN  IF i = 0
           THEN /\ outcome' = Returned("remove_family_member", "False")
                /\ UNCHANGED <<active_agents, cfg_active_agents, same_list, agents>>
           ELSE LET cfg_list == DeleteAt(cfg_active_agents, i)
                    chat_list == IF same_list THEN cfg_list ELSE active_agents
                IN  /\ cfg_active_agents' = cfg_list
                    /\ active_agents' =
                          SelectSeq(chat_list,
                                    LAMBDA a : agents[a].name # agent_name)
                    /\ same_list' = FALSE
                    /\ agents' = Live(Range(cfg_active_agents') \cup Range(active_agents'))
                    /\ outcome' = Returned("remove_family_member", "True")

\* role_interactions of _extract_happy_moments: a later response of a role
\* overwrites an earlier one; RoleInteractions_first keeps the earliest
RoleInteractions_first(resp) ==
    [r \in {resp[i].role : i \in 1..Len(resp)} |->
        LET first == CHOOSE i \in 1..Len(resp) :
                        /\ resp[i].role = r
                        /\ \A j \in 1..Len(resp) : resp[j].role = r => i <= j
        IN  resp[first].message]
RoleInteractions(resp) ==
    [r \in {resp[i].role : i \in 1..Len(resp)} |->
        LET last == CHOOSE i \in 1..Len(resp) :
                       /\ resp[i].role = r
                       /\ \A j \in 1..Len(resp) : resp[j].role = r => j <= i
        IN  resp[last].message]

\* replies of the generation service to the extraction prompt: the call
\* fails, the text is not JSON, the text is a JSON object
ExtractionReplies == {"fail", "not_json", "json_object"}

\* _extract_happy_moments: the exception it raises, or "none"
ExtractError(reply) ==
    IF reply = "fail" THEN "OpenAIError" ELSE "none"

\* _extract_happy_moments: self.happy_moments after the call;
\* _extract_happy_moments_any_text builds a moment from a text that is not
\* JSON as well
_extract_happy_moments_any_text(text, resp, reply) ==
    IF reply \in {"json_object", "not_json"}
    THEN Append(happy_moments,
                [user_message |-> text,
                 role_interactions |-> RoleInteractions(resp)])
    ELSE happy_moments
_extract_happy_moments(text, resp, reply) ==
    IF reply = "json_object"
    THEN Append(happy_moments,
                [user_message |-> text,
                 role_interactions |-> RoleInteractions(resp)])
    ELSE happy_moments

\* _save_chat_data: the exception it raises, or "none"
SaveError ==
    IF current_session # None /\ current_session \notin session_dirs
    THEN "FileNotFoundError" ELSE "none"

\* process_user_message(text), up to the call of
\* _generate_role_based_responses and the sort it starts with
process_user_message(text, emotion) ==
    /\ pc = "idle"
    /\ emotion_reply' = emotion
    /\ rounds < MaxRounds
    /\ rounds + adds + removes + starts < MaxCalls
    /\ rounds' = rounds + 1
    /\ conversation_history' = Append(conversation_history, user_msg(text))
    /\ user_message' = text
    /\ sorted_agents' = _sort_agents_by_priority(text)
    /\ loop_index' = 1
    /\ responses' = <<>>
    /\ contexts' = <<>>
    /\ pc' = "generate"
    /\ outcome' = Pending("process_user_message")
    /\ UNCHANGED <<current_session, active_agents, happy_moments,
                   cfg_session_id, cfg_active_agents, same_list, agents,
                   session_dirs, adds, removes, starts>>

\* one iteration of the loop of _generate_role_based_responses:
\* _generate_agent_response, FamilyMemberAgent.generate_response and
\* _update_emotion for the next agent.  fault is what the generation
\* service does: fail the text call, fail the emotion call, or answer both
_generate_agent_response(fault) ==
    /\ pc = "generate"
    /\ loop_index <= Len(sorted_agents)
    /\ UNCHANGED <<current_session, active_agents, conversation_history,
                   happy_moments, cfg_session_id, cfg_active_agents,
                   same_list, session_dirs, user_message, sorted_agents,
                   emotion_reply, rounds, adds, removes, starts>>
    /\ LET agent == sorted_agents[loop_index]
           context == _get_conversation_context
           text == GeneratedText(rounds, loop_index)
       IN  IF ~_should_agent_respond(agent, user_message)
           THEN /\ fault = "none"
                /\ loop_index' = loop_index + 1
                /\ UNCHANGED <<agents, responses, contexts, pc, outcome>>
           ELSE /\ contexts' = Append(contexts, context)
                /\ IF fault # "none"
                   THEN \* the exception leaves process_user_message
                        /\ pc' = "idle"
                        /\ outcome' = Raised("process_user_message", "OpenAIError")
                        /\ UNCHANGED <<agents, responses, loop_index>>
                   ELSE /\ agents' =
                              [agents EXCEPT
                                 ![agent].current_emotion = emotion_reply,
                                 ![agent].conversation_history =
                                    Append(@, [user_message |-> user_message,
                                               agent_response |-> text])]
                        /\ responses' =
                              Append(responses,
                                     ChatMessage(agents[agent].name, text, emotion_reply,
                                                 agents[agent].role))
                        /\ loop_index' = loop_index + 1
                        /\ UNCHANGED <<pc, outcome>>

\* process_user_message after the loop: the responses join the history,
\* then _extract_happy_moments and _save_chat_data run
commit_responses(reply) ==
    /\ pc = "generate"
    /\ loop_index > Len(sorted_agents)
    /\ pc' = "idle"
    /\ conversation_history' = extend(conversation_history, responses)
    /\ happy_moments' = _extract_happy_moments(user_message, responses, reply)
    /\ outcome' =
          IF ExtractError(reply) # "none"
          THEN Raised("process_user_message", ExtractError(reply))
          ELSE IF SaveError # "none"
          THEN Raised("process_user_message", SaveError)
          ELSE Returned("process_user_message", "responses")
    /\ UNCHANGED <<current_session, active_agents, cfg_session_id,
                   cfg_active_agents, same_list, agents, session_dirs,
                   user_message, sorted_agents, loop_index, responses,
                   contexts, emotion_reply, rounds, adds, removes, starts>>

---------------------------------------------------------------------------
(* agents/hera/agent.py: HeraAgent *)

\* UserProfile(), as far as _update_user_profile and
\* _manual_extract_information write it: age None, created_at None
UserProfile == [age |-> -1, created_at |-> FALSE]

IsDigit(c) == c \in 48..57

\* int() of a run of ASCII digits
RECURSIVE ParseInt(_)
ParseInt(digits) ==
    IF digits = <<>> THEN 0
    ELSE 10 * ParseInt(SubSeq(digits, 1, Len(digits) - 1))
         + (digits[Len(digits)] - 48)

\* re.search(r'(\d+)歳', text): the number matched, or -1
AgeMatch(text) ==
    LET starts_at == {i \in 1..Len(text) :
                        \E j \in i..Len(text) - 1 :
                            /\ \A k \in i..j : IsDigit(text[k])
                            /\ text[j + 1] = 27507}
    IN  IF starts_at = {} THEN -1
        ELSE LET i == CHOOSE a \in starts_at : \A b \in starts_at : a <= b
                 j == CHOOSE e \in i..Len(text) - 1 :
                         /\ \A k \in i..e : IsDigit(text[k])
                         /\ text[e + 1] = 27507
             IN  ParseInt(SubSeq(text, i, j))

\* replies of the generation service to the extraction prompt of
\* _extract_information: the call fails, the text is not JSON, a JSON object
\* with age 35, a JSON object with "age": null
HeraExtractionReplies == {"fail", "not_json", "json_age", "json_null"}

\* _extract_information: self.user_profile after the call
_extract_information(text, reply) ==
    IF reply = "json_age"
    THEN [age |-> 35, created_at |-> TRUE]
    ELSE IF reply = "json_null"
    THEN [hera_profile EXCEPT !.created_at = TRUE]
    ELSE IF reply = "not_json" /\ AgeMatch(text) # -1 /\ hera_profile.age = -1
    THEN [hera_profile EXCEPT !.age = AgeMatch(text)]
    ELSE hera_profile

\* _add_to_history
_add_to_history(history, speaker, message) ==
    Append(history, [speaker |-> speaker, message |-> message])

\* HeraAgent.start_session(session_id); svc_ok: the generation service
\* answers the greeting call
start_session(session_id, svc_ok) ==
    /\ hera_session' = session_id
    /\ hera_profile' = UserProfile
    /\ session_dirs' = session_dirs \cup {session_id}
    /\ hera_ended' = FALSE
    /\ UNCHANGED hera_rounds
    /\ IF svc_ok
       THEN /\ hera_history' = _add_to_history(<<>>, "hera", GeneratedText(0, 1))
            /\ hera_outcome' = Returned("start_session", "greeting")
       ELSE /\ hera_history' = <<>>
            /\ hera_outcome' = Raised("start_session", "OpenAIError")

\* HeraAgent.process_message(text); svc_ok: the generation service answers
\* the response call; reply: what it does with the extraction call
process_message(text, svc_ok, reply) ==
    /\ hera_rounds < MaxHeraRounds
    /\ hera_rounds' = hera_rounds + 1
    /\ UNCHANGED <<hera_session, hera_ended, session_dirs>>
    /\ LET with_user == _add_to_history(hera_history, "user", text)
           with_hera == _add_to_history(with_user, "hera",
                                        GeneratedText(hera_rounds', 1))
       IN  IF ~svc_ok
           THEN /\ reply = "not_json"
                /\ hera_history' = with_user
                /\ hera_outcome' = Raised("process_message", "OpenAIError")
                /\ UNCHANGED hera_profile
           ELSE /\ hera_history' = with_hera
                /\ IF reply = "fail"
                   THEN /\ hera_outcome' = Raised("process_message", "OpenAIError")
                        /\ UNCHANGED hera_profile
                   ELSE /\ hera_profile' = _extract_information(text, reply)
                        /\ hera_outcome' = Returned("process_message", "response")

\* HeraAgent.end_session()
end_session ==
    /\ UNCHANGED <<hera_session, hera_history, hera_profile, hera_rounds,
                   session_dirs>>
    /\ IF hera_session = None
       THEN /\ hera_outcome' = Returned("end_session", "empty")
            /\ UNCHANGED hera_ended
       ELSE /\ hera_outcome' = Returned("end_session", "session_info")
            /\ hera_ended' = TRUE

---------------------------------------------------------------------------
(* role_system.py: RoleFactory and FamilyConfigurationManager on their own *)

\* what a call of the factory or of the configuration manager returned
\* (a role_config list, a list of agents) or raised
FactoryReturned(op, family_structure, infos) ==
    [op |-> op, raised |-> "none", family_structure |-> family_structure,
     agents |-> infos]
FactoryRaised(op, exception) ==
    [op |-> op, raised |-> exception, family_structure |-> <<>>,
     agents |-> <<>>]

\* _determine_family_structure(user_profile), called on its own
DetermineFamilyStructure ==
    LET user_profile == factory_input.user_profile
    IN  /\ factory_result' =
              IF DetermineError(user_profile) # "none"
              THEN FactoryRaised("_determine_family_structure",
                                 DetermineError(user_profile))
              ELSE FactoryReturned("_determine_family_structure",
                                   _determine_family_structure(user_profile),
                                   <<>>)
        /\ UNCHANGED factory_input

\* RoleFactory.create_agent_from_role(role, user_profile, custom_params),
\* called on its own
CreateAgentFromRole ==
    LET role == factory_input.role
        user_profile == factory_input.user_profile
        custom_params == factory_input.custom_params
        reply == factory_input.reply
    IN  /\ factory_result' =
              IF CreateError(role, user_profile) # "none"
              THEN FactoryRaised("create_agent_from_role",
                                 CreateError(role, user_profile))
              ELSE IF reply = "fail"
              THEN FactoryRaised("create_agent_from_role", "OpenAIError")
              ELSE FactoryReturned("create_agent_from_role", <<>>,
                                   << get_agent_info(role, user_profile,
                                                     custom_params, reply) >>)
        /\ UNCHANGED factory_input

\* FamilyConfigurationManager.configure_family(user_profile, session_id),
\* called on a manager of its own: the roster it returns
ConfigureFamily ==
    LET user_profile == factory_input.user_profile
        reply == factory_input.reply
    IN  /\ factory_result' =
              IF DetermineError(user_profile) # "none"
              THEN FactoryRaised("configure_family", DetermineError(user_profile))
              ELSE LET family_structure == _determine_family_structure(user_profile)
                       stop == ConfigureStop(family_structure, user_profile,
                                             IF reply = "fail" THEN 1 ELSE 0)
                   IN  IF stop # 0
                       THEN FactoryRaised("configure_family",
                               IF CreateError(family_structure[stop].role,
                                              user_profile) # "none"
                               THEN CreateError(family_structure[stop].role,
                                                user_profile)
                               ELSE "OpenAIError")
                       ELSE FactoryReturned("configure_family", family_structure,
                               [i \in 1..Len(family_structure) |->
                                   get_agent_info(family_structure[i].role,
                                                  user_profile,
                                                  family_structure[i].custom_params,
                                                  reply)])
        /\ UNCHANGED factory_input

---------------------------------------------------------------------------
(* Specifications *)

ChatInit ==
    /\ current_session = None
    /\ active_agents = <<>>
    /\ conversation_history = <<>>
    /\ happy_moments = <<>>
    /\ cfg_session_id = None
    /\ cfg_active_agents = <<>>
    /\ same_list = FALSE
    /\ agents = <<>>
    /\ session_dirs = {}
    /\ pc = "idle"
    /\ user_message = <<>>
    /\ sorted_agents = <<>>
    /\ loop_index = 1
    /\ responses = <<>>
    /\ contexts = <<>>
    /\ emotion_reply = "happy"
    /\ outcome = Returned("__init__", "none")
    /\ rounds = 0
    /\ adds = 0
    /\ removes = 0
    /\ starts = 0

HeraInit ==
    /\ hera_session = None
    /\ hera_history = <<>>
    /\ hera_profile = UserProfile
    /\ hera_ended = FALSE
    /\ hera_outcome = Returned("__init__", "none")
    /\ hera_rounds = 0

\* no call of the factory is made in the behaviours of the chat manager
\* and of HeraAgent
FactoryIdle ==
    /\ factory_input = [role |-> "partner", user_profile |-> EmptyProfile,
                        custom_params |-> EmptyDict, reply |-> "not_json"]
    /\ factory_result = FactoryReturned("__init__", <<>>, <<>>)

Init == ChatInit /\ HeraInit /\ FactoryIdle

\* the generation service answers every call of a start (0), or fails the
\* second personality call, the second greeting call
StartFamilyChat ==
    \E session_id \in SessionIds, user_profile \in Profiles,
       svc_fail \in {0, 2}, greet_fail \in {0, 2} :
        start_family_chat(session_id, user_profile, svc_fail, greet_fail)

AddFamilyMember ==
    \E role \in FamilyRole, custom_params \in CustomParams, svc_ok \in BOOLEAN :
        add_family_member(role, custom_params, svc_ok)

RemoveFamilyMember ==
    \E agent_name \in RemoveNames : remove_family_member(agent_name)

ProcessUserMessage ==
    \E text \in Messages, emotion \in EmotionReplies :
        process_user_message(text, emotion)

GenerateAgentResponse ==
    \E fault \in {"none", "fail_text", "fail_emotion"} :
        _generate_agent_response(fault)

CommitResponses ==
    \E reply \in ExtractionReplies : commit_responses(reply)

Next ==
    \/ StartFamilyChat /\ UNCHANGED <<hera_vars, factory_vars>>
    \/ AddFamilyMember /\ UNCHANGED <<hera_vars, factory_vars>>
    \/ RemoveFamilyMember /\ UNCHANGED <<hera_vars, factory_vars>>
    \/ ProcessUserMessage /\ UNCHANGED <<hera_vars, factory_vars>>
    \/ GenerateAgentResponse /\ UNCHANGED <<hera_vars, factory_vars>>
    \/ CommitResponses /\ UNCHANGED <<hera_vars, factory_vars>>

Spec == Init /\ [][Next]_vars

HeraUnchanged ==
    UNCHANGED <<current_session, active_agents, conversation_history,
                happy_moments, cfg_session_id, cfg_active_agents, same_list,
                agents, pc, user_message, sorted_agents, loop_index,
                responses, contexts, emotion_reply, outcome, rounds, adds,
                removes, starts, factory_input, factory_result>>

HeraStartSession ==
    \E session_id \in SessionIds, svc_ok \in BOOLEAN :
        start_session(session_id, svc_ok) /\ HeraUnchanged

HeraProcessMessage ==
    \E text \in HeraMessages, svc_ok \in BOOLEAN, reply \in HeraExtractionReplies :
        process_message(text, svc_ok, reply) /\ HeraUnchanged

HeraEndSession == end_session /\ HeraUnchanged

HeraNext == HeraStartSession \/ HeraProcessMessage \/ HeraEndSession

HeraSpec == Init /\ [][HeraNext]_vars

\* the arguments of the calls of the factory and the reply of the
\* generation service, on a RoleFactory and a FamilyConfigurationManager
\* as constructed
FactoryInit ==
    /\ ChatInit /\ HeraInit
    /\ factory_input \in [role : FamilyRole, user_profile : FactoryProfiles,
                          custom_params : FactoryCustomParams,
                          reply : PersonalityReplies]
    /\ factory_result = FactoryReturned("__init__", <<>>, <<>>)

FactoryNext ==
    \/ DetermineFamilyStructure /\ UNCHANGED <<chat_vars, hera_vars>>
    \/ CreateAgentFromRole /\ UNCHANGED <<chat_vars, hera_vars>>
    \/ ConfigureFamily /\ UNCHANGED <<chat_vars, hera_vars>>

FactorySpec == FactoryInit /\ [][FactoryNext]_vars

\* _get_conversation_context(), called on its own on a manager whose
\* history is one of Logs
GetConversationContext ==
    /\ contexts = <<>>
    /\ contexts' = <<_get_conversation_context>>
    /\ UNCHANGED <<current_session, active_agents, conversation_history,
                   happy_moments, cfg_session_id, cfg_active_agents,
                   same_list, agents, session_dirs, pc, user_message,
                   sorted_agents, loop_index, responses, emotion_reply,
                   outcome, rounds, adds, removes, starts>>

ContextInit ==
    /\ conversation_history \in Logs
    /\ current_session = None
    /\ active_agents = <<>>
    /\ happy_moments = <<>>
    /\ cfg_session_id = None
    /\ cfg_active_agents = <<>>
    /\ same_list = FALSE
    /\ agents = <<>>
    /\ session_dirs = {}
    /\ pc = "idle"
    /\ user_message = <<>>
    /\ sorted_agents = <<>>
    /\ loop_index = 1
    /\ responses = <<>>
    /\ contexts = <<>>
    /\ emotion_reply = "happy"
    /\ outcome = Returned("__init__", "none")
    /\ rounds = 0
    /\ adds = 0
    /\ removes = 0
    /\ starts = 0
    /\ HeraInit /\ FactoryIdle

ContextNext == GetConversationContext /\ UNCHANGED <<hera_vars, factory_vars>>

ContextSpec == ContextInit /\ [][ContextNext]_vars

---------------------------------------------------------------------------
(* Properties *)

\* number of times agent a occurs in list s
Count(a, s) == Cardinality({i \in 1..Len(s) : s[i] = a})

\* a text holds none of the sixteen keywords
KeywordFree(text) ==
    /\ ~AnyKeyword(wisdom_keywords, text)
    /\ ~AnyKeyword(care_keywords, text)
    /\ ~AnyKeyword(support_keywords, text)
    /\ ~AnyKeyword(joy_keywords, text)

\* a process_user_message call has ended (returned or raised)
RoundOver == outcome.op = "process_user_message" /\ pc = "idle"

\* C1: process_user_message on a manager on which start_family_chat was
\* never called (current_session is None) fails with SessionNotActiveError
\* and leaves the conversation history, the happy moments and the roster
\* as they were.
C1_UninitializedProcessFails ==
    [][(current_session = None /\ rounds' = rounds + 1)
        => /\ outcome'.raised = "SessionNotActiveError"
           /\ conversation_history' = conversation_history
           /\ happy_moments' = happy_moments
           /\ active_agents' = active_agents]_vars

\* C2: once end_session has ended a session that start_session had opened
\* (its greeting is the first turn of the history), every process_message
\* call fails and appends nothing to the history, until the next
\* start_session.
C2_ProcessAfterEndFails ==
    [][(/\ hera_ended
        /\ hera_history # <<>>
        /\ hera_history[1] = [speaker |-> "hera", message |-> GeneratedText(0, 1)]
        /\ hera_rounds' = hera_rounds + 1)
        => /\ hera_outcome'.raised # "none"
           /\ hera_history' = hera_history]_vars

\* C3: when start_family_chat has returned, the happy moments are empty,
\* the roster is the one configure_family built for the profile (one fresh
\* agent per role_config, both managers holding it), and the history is
\* exactly one greeting per agent of the roster, in roster order, with no
\* turn of an earlier session.
C3_StartResets ==
    (outcome.op = "start_family_chat" /\ outcome.raised = "none")
    => /\ happy_moments = <<>>
       /\ active_agents = cfg_active_agents
       /\ \E user_profile \in Profiles :
             /\ DetermineError(user_profile) = "none"
             /\ LET family_structure == _determine_family_structure(user_profile)
                IN  /\ Len(active_agents) = Len(family_structure)
                    /\ \A i \in 1..Len(family_structure) :
                          agents[active_agents[i]] =
                             create_agent_from_role(family_structure[i].role,
                                                    user_profile,
                                                    family_structure[i].custom_params)
       /\ Len(conversation_history) = Len(active_agents)
       /\ \A i \in 1..Len(conversation_history) :
             /\ conversation_history[i].speaker = agents[active_agents[i]].name
             /\ conversation_history[i].role = agents[active_agents[i]].role
             /\ conversation_history[i].emotion = "happy"
             /\ conversation_history[i].message = GeneratedText(0, i)

\* C3 witness: the second start_family_chat of a manager that has
\* processed a message has returned with a roster of four.
C3_Witness ==
    /\ outcome.op = "start_family_chat" /\ outcome.raised = "none"
    /\ starts = 2 /\ rounds = 1
    /\ Len(active_agents) = 4

\* C4: when the text generation fails for exactly one agent of a round,
\* process_user_message returns normally and the history ends with the
\* user's turn followed by the turns of the other agents, in priority order.
C4_OneFailureStillCommits ==
    (RoundOver /\ Len(contexts) = Len(responses) + 1)
    => /\ outcome.raised = "none"
       /\ Len(responses) = Len(sorted_agents) - 1
       /\ Len(conversation_history) >= Len(responses) + 1
       /\ SubSeq(conversation_history,
                 Len(conversation_history) - Len(responses),
                 Len(conversation_history))
             = <<user_msg(user_message)>> \o responses

\* C5: all generate_response calls of one round get the same context, the
\* last five turns of the history as it is once the user's turn is logged,
\* and no context holds a text generated in that round.
C5_ContextFixedPerRound ==
    \A i \in 1..Len(contexts) :
        /\ contexts[i] = contexts[1]
        /\ Len(contexts[i]) >= 1
        /\ contexts[i][Len(contexts[i])] = ContextLine(user_msg(user_message))
        /\ \A k \in 1..Len(contexts[i]), j \in 1..Len(sorted_agents) :
              contexts[i][k].message # GeneratedText(rounds, j)

\* C5 witness: the third call of a round whose priority order is not the
\* roster order, two responses being already generated.
C5_Witness ==
    /\ pc = "generate"
    /\ Len(contexts) >= 3 /\ Len(responses) >= 2
    /\ sorted_agents # active_agents

\* C6: between two start_family_chat calls the history and the happy
\* moments only grow at the end: every step of process_user_message,
\* add_family_member and remove_family_member leaves the old lists as
\* prefixes of the new ones.
C6_AppendOnly ==
    [][starts' = starts
        => /\ IsPrefix(conversation_history, conversation_history')
           /\ IsPrefix(happy_moments, happy_moments')]_vars

\* C6 witness: a round of a started session has committed turns and a happy
\* moment, and remove_family_member has then removed a member.
C6_Witness ==
    /\ starts = 1 /\ rounds = 1
    /\ Len(conversation_history) >= 3
    /\ Len(happy_moments) >= 1
    /\ outcome = Returned("remove_family_member", "True")

C8_EveryAgentResponds ==
    /\ pc = "generate"
       => /\ Len(sorted_agents) = Len(active_agents)
          /\ \A a \in Range(active_agents) \cup Range(sorted_agents) :
                Count(a, sorted_agents) = Count(a, active_agents)
    /\ (RoundOver /\ loop_index > Len(sorted_agents))
       => /\ Len(responses) = Len(active_agents)
          /\ \A i \in 1..Len(responses) :
                /\ responses[i].speaker = agents[sorted_agents[i]].name
                /\ responses[i].role = agents[sorted_agents[i]].role
          /\ SubSeq(conversation_history,
                    Len(conversation_history) - Len(responses) + 1,
                    Len(conversation_history)) = responses

\* C8 witness: a round over a roster of four or more, scheduled in another
\* order than the roster order, has run all its generation calls.
C8_Witness ==
    /\ RoundOver /\ loop_index > Len(sorted_agents)
    /\ Len(active_agents) >= 4
    /\ sorted_agents # active_agents

\* C9: for a message with a wisdom keyword and a roster with a grandfather,
\* a grandfather is first in the scheduled order.
C9_GrandfatherFirst ==
    (/\ pc = "generate"
     /\ AnyKeyword(wisdom_keywords, user_message)
     /\ \E a \in Range(active_agents) : agents[a].role = "grandfather")
    => agents[sorted_agents[1]].role = "grandfather"

\* C9 witness: the message holds a wisdom and a care keyword, and the
\* roster holds a grandmother and, behind its first entry, a grandfather.
C9_Witness ==
    /\ pc = "generate"
    /\ user_message = MsgWisdomCare
    /\ Len(active_agents) >= 2
    /\ agents[active_agents[1]].role # "grandfather"
    /\ \E a \in Range(active_agents) : agents[a].role = "grandfather"
    /\ \E a \in Range(active_agents) : agents[a].role = "grandmother"

\* C10: for a message without any of the sixteen keywords every agent has
\* rank 4 and the scheduled order is the roster order.
C10_KeywordFreeKeepsRosterOrder ==
    (pc = "generate" /\ KeywordFree(user_message))
    => /\ sorted_agents = active_agents
       /\ \A a \in Range(active_agents) :
             priority_key(agents[a].role,
                          _analyze_message_content(user_message)) = 4

\* C10 witness: "子どもたちと公園に行きたい" is scheduled over a roster of four
\* or more.
C10_Witness ==
    /\ pc = "generate"
    /\ user_message = MsgPark
    /\ Len(active_agents) >= 4

C12_ExtractionFailureNotSurfaced ==
    [][(commit_responses("fail") /\ SaveError = "none")
        => /\ outcome' = Returned("process_user_message", "responses")
           /\ happy_moments' = happy_moments
           /\ conversation_history' = conversation_history \o responses]_vars

\* C13: when the emotion call fails after the text of an agent was
\* generated, the turn of the agent with that text still joins the round,
\* the round goes on, and the current_emotion of the agent keeps its value.
C13_EmotionFailureKeepsTurn ==
    [][_generate_agent_response("fail_emotion")
        => /\ pc' = "generate"
           /\ Len(responses') = Len(responses) + 1
           /\ responses'[Len(responses')].message
                 = GeneratedText(rounds, loop_index)
           /\ agents'[sorted_agents[loop_index]].current_emotion
                 = agents[sorted_agents[loop_index]].current_emotion]_vars

\* the labels the prompt of _update_emotion lists, and the initial "neutral"
EmotionLabels ==
    {"happy", "excited", "calm", "loving", "curious", "worried", "proud",
     "nostalgic", "neutral"}

\* C14: the current_emotion of every agent and the emotion of every turn of
\* the history is one of the nine labels, whatever the generation service
\* answers to the emotion prompt.
C14_EmotionInEnumeration ==
    /\ \A a \in DOMAIN agents : agents[a].current_emotion \in EmotionLabels
    /\ \A i \in 1..Len(conversation_history) :
          conversation_history[i].emotion \in EmotionLabels

\* the profile holds a partner_info that is neither None nor empty
HasPartnerInfo(user_profile) ==
    /\ "partner_info" \in user_profile.keys
    /\ "partner_info" \notin user_profile.nulls
    /\ user_profile.partner_info.keys # {}

C16_DetermineFamilyStructureTotal ==
    factory_result.op = "_determine_family_structure"
    => factory_result.raised = "none"

\* C17: when configure_family returns within start_family_chat, the roster
\* of the configuration manager holds one newly created agent per
\* role_config of _determine_family_structure(user_profile), in that order,
\* each object once, and nothing else.
C17_ConfigureReplacesRoster ==
    [][\A session_id \in SessionIds, user_profile \in Profiles,
          svc_fail \in {0, 2}, greet_fail \in {0, 2} :
          (/\ start_family_chat(session_id, user_profile, svc_fail, greet_fail)
           /\ DetermineError(user_profile) = "none"
           /\ ConfigureStop(_determine_family_structure(user_profile),
                            user_profile, svc_fail) = 0)
          => LET family_structure == _determine_family_structure(user_profile)
             IN  /\ Len(cfg_active_agents') = Len(family_structure)
                 /\ \A i \in 1..Len(family_structure) :
                       agents'[cfg_active_agents'[i]] =
                          create_agent_from_role(family_structure[i].role,
                                                 user_profile,
                                                 family_structure[i].custom_params)
                 /\ \A i, j \in 1..Len(cfg_active_agents') :
                       i # j => cfg_active_agents'[i] # cfg_active_agents'[j]]_vars

\* C17 witness: the second start_family_chat of a manager that was asked to
\* add a member has returned with a roster of four.
C17_Witness ==
    /\ outcome = Returned("start_family_chat", "agents")
    /\ starts = 2 /\ adds = 1
    /\ Len(cfg_active_agents) = 4

\* C18: on a chat manager whose roster is the roster of its configuration
\* manager, remove_family_member(agent_name) returns False and leaves the
\* roster as it is when no agent of the roster has that name; otherwise it
\* returns True and the roster loses its first agent of that name and no
\* other entry.
C18_RemoveFirstMatchOnly ==
    [][\A agent_name \in RemoveNames :
          (remove_family_member(agent_name)
           /\ active_agents = cfg_active_agents)
          => LET i == FirstNamed(active_agents, agent_name)
             IN  IF i = 0
                 THEN /\ outcome' = Returned("remove_family_member", "False")
                      /\ active_agents' = active_agents
                 ELSE /\ outcome' = Returned("remove_family_member", "True")
                      /\ active_agents' = DeleteAt(active_agents, i)]_vars

\* C19: no two agents of the roster configure_family returns have the same
\* name.
C19_RosterNamesUnique ==
    (factory_result.op = "configure_family" /\ factory_result.raised = "none")
    => \A i, j \in 1..Len(factory_result.agents) :
          i # j => factory_result.agents[i].name # factory_result.agents[j].name

\* C20: the agent create_agent_from_role returns has the name, the
\* personality traits, the interests and the values that custom_params
\* supplies, whatever the role and the profile.
C20_OverridesWin ==
    (factory_result.op = "create_agent_from_role"
     /\ factory_result.raised = "none")
    => LET custom_params == factory_input.custom_params
           info == factory_result.agents[1]
       IN  /\ "name" \in custom_params.keys
                 => info.name = custom_params.name
           /\ "personality_traits" \in custom_params.keys
                 => info.personality.traits = custom_params.personality_traits
           /\ "interests" \in custom_params.keys
                 => info.interests = custom_params.interests
           /\ "values" \in custom_params.keys
                 => info.values = custom_params.values

\* C21: every child agent of the roster configure_family returns has the
\* age of its entry of children_info and the name of the age band and the
\* gender of that entry (under 7 "たろう"/"さくら", under 13 "ゆうと"/"みお",
\* else "そうた"/"あい"), whatever the age and the gender of the user.
C21_ChildFromItsEntry ==
    (factory_result.op = "configure_family" /\ factory_result.raised = "none")
    => LET user_profile == factory_input.user_profile
           partners == IF HasPartnerInfo(user_profile) THEN 1 ELSE 0
           children == IF "children_info" \in user_profile.keys
                       THEN user_profile.children_info ELSE <<>>
       IN  \A i \in 1..Len(children) :
              /\ factory_result.agents[partners + i].role = "child"
              /\ factory_result.agents[partners + i].age = children[i].age
              /\ factory_result.agents[partners + i].name
                    = _generate_child_name(children[i])

C23_EveryRoleHasTemplate ==
    [][\A role \in FamilyRole, custom_params \in CustomParams :
          add_family_member(role, custom_params, TRUE)
          => /\ role \in role_templates
             /\ outcome' = Returned("add_family_member", "agent")
             /\ Len(active_agents') > Len(active_agents)
             /\ agents'[active_agents'[Len(active_agents')]].role = role]_vars

\* C24: the context _get_conversation_context builds has at most five
\* lines; they are the lines of the min(5, length) last turns of the
\* history, in the order of the history; building it leaves the history as
\* it is.
C24_ContextWindow ==
    [][contexts' # contexts
        => LET context == contexts'[Len(contexts')]
               n == Len(conversation_history)
               m == IF n < 5 THEN n ELSE 5
           IN  /\ Len(context) = m
               /\ Len(context) <= 5
               /\ \A k \in 1..m :
                     context[k] = ContextLine(conversation_history[n - m + k])
               /\ conversation_history' = conversation_history]_vars

\* C24 witness: the context of a history of more than five turns is built.
C24_Witness ==
    /\ Len(conversation_history) > 5
    /\ Len(contexts) = 1
    /\ Len(contexts[1]) = 5

\* the role priority_key promotes when exactly this flag is set
PromotedRole(flag) ==
    IF flag = "needs_wisdom" THEN "grandfather"
    ELSE IF flag = "needs_care" THEN "grandmother"
    ELSE IF flag = "needs_support" THEN "partner"
    ELSE "child"

\* C25: the scheduled order is the roster sorted stably by rank: the agents
\* of rank 0, then those of rank 1, ..., then those of rank 4, each group in
\* roster order; for a message with exactly one flag set it is the agents of
\* the promoted role in roster order, then all others in roster order.
C25_SortIsStable ==
    pc = "generate"
    => LET message_analysis == _analyze_message_content(user_message)
           rank(a) == priority_key(agents[a].role, message_analysis)
           OfRank(r) == SelectSeq(active_agents, LAMBDA a : rank(a) = r)
           flags == {f \in {"needs_wisdom", "needs_care", "needs_support",
                            "needs_joy"} : message_analysis[f]}
       IN  /\ sorted_agents
                 = OfRank(0) \o OfRank(1) \o OfRank(2) \o OfRank(3) \o OfRank(4)
           /\ \A f \in flags :
                 flags = {f}
                 => sorted_agents =
                       SelectSeq(active_agents,
                                 LAMBDA a : agents[a].role = PromotedRole(f))
                       \o SelectSeq(active_agents,
                                    LAMBDA a : agents[a].role # PromotedRole(f))

\* C25 witness: "悩みがある" (a wisdom keyword only) is scheduled over a roster
\* with two grandfathers, the second behind agents of other roles.
C25_Witness ==
    /\ pc = "generate"
    /\ user_message = MsgWisdom
    /\ \E i, j, k \in 1..Len(active_agents) :
          /\ i < j /\ j < k
          /\ active_agents[i] # active_agents[k]
          /\ agents[active_agents[i]].role = "grandfather"
          /\ agents[active_agents[j]].role # "grandfather"
          /\ agents[active_agents[k]].role = "grandfather"

\* the flag of the first keyword list, in the order wisdom, care, support,
\* joy, of which the text holds a keyword, or "none"
FirstFlag(text) ==
    IF AnyKeyword(wisdom_keywords, text) THEN "needs_wisdom"
    ELSE IF AnyKeyword(care_keywords, text) THEN "needs_care"
    ELSE IF AnyKeyword(support_keywords, text) THEN "needs_support"
    ELSE IF AnyKeyword(joy_keywords, text) THEN "needs_joy"
    ELSE "none"

\* C26 as stated: only the role of the first set flag is promoted and every
\* other agent has rank 4, so the scheduled order is the agents of that role
\* in roster order, then all others in roster order (a grandmother is not
\* moved ahead for a message with a wisdom and a care keyword).
C26_OnlyFirstFlagPromotes ==
    (pc = "generate" /\ FirstFlag(user_message) # "none")
    => LET promoted == PromotedRole(FirstFlag(user_message))
       IN  sorted_agents =
              SelectSeq(active_agents, LAMBDA a : agents[a].role = promoted)
              \o SelectSeq(active_agents, LAMBDA a : agents[a].role # promoted)

\* C26 amended: every role whose own flag is set is promoted, whatever the
\* other flags: in the scheduled order the grandfathers (wisdom) come before
\* the grandmothers (care), these before the partners (support), these
\* before the children (joy), and all of them before every agent whose role
\* has no flag set.
C26_EverySetFlagPromotes ==
    pc = "generate"
    => LET Promoted(a) ==
               \/ agents[a].role = "grandfather"
                  /\ AnyKeyword(wisdom_keywords, user_message)
               \/ agents[a].role = "grandmother"
                  /\ AnyKeyword(care_keywords, user_message)
               \/ agents[a].role = "partner"
                  /\ AnyKeyword(support_keywords, user_message)
               \/ agents[a].role = "child"
                  /\ AnyKeyword(joy_keywords, user_message)
           Order(a) == IF agents[a].role = "grandfather" THEN 0
                       ELSE IF agents[a].role = "grandmother" THEN 1
                       ELSE IF agents[a].role = "partner" THEN 2
                       ELSE 3
       IN  \A i, j \in 1..Len(sorted_agents) :
              i < j
              => /\ Promoted(sorted_agents[j]) => Promoted(sorted_agents[i])
                 /\ Promoted(sorted_agents[j])
                       => Order(sorted_agents[i]) <= Order(sorted_agents[j])

\* C26 witness: "相談と健康" (a wisdom and a care keyword) is scheduled over
\* the roster partner, child, grandfather, grandmother, and the grandmother
\* is second, ahead of the partner and the child.
C26_Witness ==
    /\ pc = "generate"
    /\ user_message = MsgWisdomCare
    /\ Len(active_agents) = 4
    /\ agents[active_agents[1]].role = "partner"
    /\ agents[active_agents[4]].role = "grandmother"
    /\ agents[sorted_agents[1]].role = "grandfather"
    /\ agents[sorted_agents[2]].role = "grandmother"

\* C27: no current_emotion is written while the generation calls of a round
\* are made: every step of the loop of _generate_role_based_responses
\* leaves the current_emotion of every agent as it was, so that a round
\* that ends in an error has changed no emotion.
C27_EmotionsWrittenAtCommitOnly ==
    [][(\E fault \in {"none", "fail_text", "fail_emotion"} :
           _generate_agent_response(fault))
        => \A a \in DOMAIN agents :
              agents'[a].current_emotion = agents[a].current_emotion]_vars

C29_RostersAgree ==
    pc = "idle"
    => /\ active_agents = cfg_active_agents
       /\ \A a \in Range(active_agents) : Count(a, active_agents) = 1

\* C30: the happy moment a round creates (the extraction reply being a JSON
\* object) has a role_interactions dict whose keys are the roles of the
\* responses the round commits to the history, the value of a role being
\* the message of the last of these responses with that role.
C30_RoleInteractions ==
    [][commit_responses("json_object")
        => /\ Len(happy_moments') = Len(happy_moments) + 1
           /\ conversation_history' = conversation_history \o responses
           /\ LET role_interactions ==
                      happy_moments'[Len(happy_moments')].role_interactions
              IN  /\ DOMAIN role_interactions
                        = {responses[i].role : i \in 1..Len(responses)}
                  /\ \A i \in 1..Len(responses) :
                        (\A j \in (i + 1)..Len(responses) :
                            responses[j].role # responses[i].role)
                        => role_interactions[responses[i].role]
                              = responses[i].message]_vars

\* C30 witness: a round in which two responses had the role "child" has
\* created a happy moment, which holds the message of the later one.
C30_Witness ==
    /\ RoundOver /\ rounds = 1
    /\ Len(happy_moments) = 1
    /\ \E i, j \in 1..Len(responses) :
          /\ i < j
          /\ responses[i].role = "child" /\ responses[j].role = "child"
          /\ responses[i].message # responses[j].message
          /\ \A k \in (j + 1)..Len(responses) : responses[k].role # "child"
          /\ happy_moments[1].role_interactions["child"] = responses[j].message

====
